---- MODULE Spec2Model ----
(***************************************************************************)
(* Model of the data-preparation pipeline of src/ipl_dashboard.py:         *)
(*   normalize_match_id_column -> preprocess_deliveries ->                 *)
(*   merge_matches_deliveries -> (sidebar filters) ->                      *)
(*   compute_figs_and_tables                                               *)
(* as run by run_cli, run_tests and run_streamlit_app.                     *)
(*                                                                         *)
(* A DataFrame is a record [cols |-> set of column names,                  *)
(*                          rows |-> sequence of functions cols -> cell].  *)
(* Cells are integers: player, team and venue names are numbered (the      *)
(* order of the numbers is the order of the names), NaN is the null cell   *)
(* and NonNumeric a text cell that pd.to_numeric cannot parse.  The cells  *)
(* of dismissal_kind are strings ("NaN" for null).                         *)
(***************************************************************************)
EXTENDS Integers, Sequences, FiniteSets, TLC

VARIABLES
    pc,               \* position in run_cli / run_tests / run_streamlit_app
    err,              \* the exception that ended the run, "none" otherwise
    in_matches,       \* matches as loaded (pd.read_csv / the test frame)
    in_deliveries,    \* deliveries as loaded
    matches,          \* matches after normalize_match_id_column
    deliveries,       \* deliveries after normalize_match_id_column
    enriched,         \* value returned by preprocess_deliveries
    merged,           \* value returned by merge_matches_deliveries
    df_merged,        \* merged after the sidebar filters
    selected_team,
    selected_season,
    tables            \* the tables map returned by compute_figs_and_tables

vars == <<pc, err, in_matches, in_deliveries, matches, deliveries, enriched,
          merged, df_merged, selected_team, selected_season, tables>>

-----------------------------------------------------------------------------
(* Cells *)

NaN == -1
NonNumeric == -2

\* selected_team = 'All Teams', selected_season = 'All Seasons'
AllTeams == 0
AllSeasons == [all |-> TRUE]

TopPlayers == 15
TopVenues == 10
BallsPerOver == 6

MatchLevelCols == {"season", "winner", "venue", "team1", "team2"}

-----------------------------------------------------------------------------
(* DataFrame primitives *)

\* a function on 1..n as a tuple
Tuple(f) == f \o << >>

Table(cols, rows) == [cols |-> cols, rows |-> Tuple(rows)]

NoTable == Table({}, <<>>)

NRows(t) == Len(t.rows)

Has(t, c) == c \in t.cols

\* tuple of the cells of column c
Col(t, c) == Tuple([i \in 1..NRows(t) |-> t.rows[i][c]])

\* d[c] = vals : adds the column or overwrites it
SetCol(t, c, vals) ==
    Table(t.cols \cup {c},
          [i \in 1..NRows(t) |->
              [k \in t.cols \cup {c} |-> IF k = c THEN vals[i] ELSE t.rows[i][k]]])

\* d.get(c, 0): the column, or the scalar 0 broadcast when it is added to a column
GetOrZero(t, c) == IF Has(t, c) THEN Col(t, c) ELSE [i \in 1..NRows(t) |-> 0]

\* df.rename(columns={from: to})
Rename(t, from, to) ==
    LET newcols == (t.cols \ {from}) \cup {to}
    IN  Table(newcols,
              [i \in 1..NRows(t) |->
                  [k \in newcols |-> IF k = to THEN t.rows[i][from] ELSE t.rows[i][k]]])

\* df[cols] : projection
Project(t, cols) ==
    Table(cols, [i \in 1..NRows(t) |-> [k \in cols |-> t.rows[i][k]]])

\* rows of a sequence kept by a boolean mask, in order
SelectRows(rows, mask) ==
    LET Sel[i \in 0..Len(rows)] ==
            IF i = 0 THEN << >>
            ELSE IF mask[i] THEN Append(Sel[i - 1], rows[i]) ELSE Sel[i - 1]
    IN  Sel[Len(rows)]

\* df[mask]
Filter(t, mask) == Table(t.cols, SelectRows(t.rows, mask))

\* df.copy(): a new object holding the same cells; aliased = FALSE says that
\* writes to the copy do not reach the original
DataFrameCopyAliased(t) == [aliased |-> TRUE, tbl |-> t]

DataFrameCopy(t) == [aliased |-> FALSE, tbl |-> t]

RECURSIVE SumSeq(_)
\* Series.sum(): NaN cells are skipped
SumSeq(s) ==
    IF s = <<>> THEN 0
    ELSE (IF Head(s) = NaN THEN 0 ELSE Head(s)) + SumSeq(Tail(s))

RECURSIVE SortedSeq(_)
\* the elements of a finite set of integers in ascending order
SortedSeq(S) ==
    IF S = {} THEN <<>>
    ELSE LET m == CHOOSE x \in S : \A y \in S : x <= y
         IN  <<m>> \o SortedSeq(S \ {m})

\* the non-null values of a column (Series.dropna().unique(), group keys)
Keys(t, c) == {t.rows[i][c] : i \in 1..NRows(t)} \ {NaN}

\* Series.astype(str) / str(x): an integer column that holds a NaN is a float
\* column, so 2020 prints as '2020.0' there and as '2020' otherwise
IsFloatCol(t, c) == \E i \in 1..NRows(t) : t.rows[i][c] = NaN

StrOf(v, isFloat) == [val |-> v, float |-> isFloat]

-----------------------------------------------------------------------------
(* normalize_match_id_column *)

\* the normalizer with the deliveries left as they came
normalize_matches_only(m, d) ==
    LET m0 == DataFrameCopy(m).tbl
        m1 == IF ~Has(m0, "match_id") /\ Has(m0, "id")
              THEN Rename(m0, "id", "match_id") ELSE m0
    IN  [matches |-> m1, deliveries |-> DataFrameCopy(d).tbl]

normalize_match_id_column(m, d) ==
    LET m0 == DataFrameCopy(m).tbl
        d0 == DataFrameCopy(d).tbl
        m1 == IF ~Has(m0, "match_id") /\ Has(m0, "id")
              THEN Rename(m0, "id", "match_id") ELSE m0
        d1 == IF ~Has(d0, "match_id") /\ Has(d0, "id")
              THEN Rename(d0, "id", "match_id") ELSE d0
        d2 == IF Has(m1, "match_id") /\ ~Has(d1, "match_id") /\ Has(d1, "id")
              THEN Rename(d1, "id", "match_id") ELSE d1
    IN  [matches |-> m1, deliveries |-> d2]

-----------------------------------------------------------------------------
(* preprocess_deliveries *)

\* pd.to_numeric(x, errors='coerce').fillna(0).astype(int) on one cell
ToNumericFillInt(v) == IF v \in {NaN, NonNumeric} THEN 0 ELSE v

\* x.fillna(0).astype(int) on one cell
FillInt(v) == IF v = NaN THEN 0 ELSE v

CoerceRuns(t, c) ==
    IF Has(t, c)
    THEN SetCol(t, c, [i \in 1..NRows(t) |-> ToNumericFillInt(t.rows[i][c])])
    ELSE t

TotalRuns(t) ==
    IF ~Has(t, "total_runs")
    THEN IF Has(t, "batsman_runs")
         THEN SetCol(t, "total_runs",
                     [i \in 1..NRows(t) |->
                         GetOrZero(t, "batsman_runs")[i] + GetOrZero(t, "extra_runs")[i]])
         ELSE SetCol(t, "total_runs", [i \in 1..NRows(t) |-> 0])
    ELSE t

\* d[c] = d.get(c, 0).fillna(0).astype(int): with the column absent d.get
\* returns the int 0, which has no fillna
CanFill(t, c) == Has(t, c)

FillCol(t, c) == SetCol(t, c, [i \in 1..NRows(t) |-> FillInt(t.rows[i][c])])

\* the flag with | in place of &: legal when either extra is 0
LegalDeliveryEither(t) ==
    SetCol(t, "legal_delivery",
           [i \in 1..NRows(t) |->
               IF t.rows[i]["wide_runs"] = 0 \/ t.rows[i]["noball_runs"] = 0
               THEN 1 ELSE 0])

LegalDelivery(t) ==
    SetCol(t, "legal_delivery",
           [i \in 1..NRows(t) |->
               IF t.rows[i]["wide_runs"] = 0 /\ t.rows[i]["noball_runs"] = 0
               THEN 1 ELSE 0])

IsWicket(t) ==
    IF Has(t, "player_dismissed")
    THEN SetCol(t, "is_wicket",
                [i \in 1..NRows(t) |->
                    IF t.rows[i]["player_dismissed"] # NaN THEN 1 ELSE 0])
    ELSE SetCol(t, "is_wicket", [i \in 1..NRows(t) |-> 0])

\* [raised: the exception or "none", ret: the returned table,
\*  arg: the caller's table as the call leaves it]
preprocess_deliveries(dels) ==
    LET d  == DataFrameCopy(dels)
        d1 == CoerceRuns(d.tbl, "batsman_runs")
        d2 == CoerceRuns(d1, "extra_runs")
        d3 == TotalRuns(d2)
        d4 == FillCol(d3, "wide_runs")
        d5 == FillCol(d4, "noball_runs")
        d6 == LegalDelivery(d5)
        d7 == IsWicket(d6)
        seen(t) == IF d.aliased THEN t ELSE dels
    IN  IF ~CanFill(d3, "wide_runs")
        THEN [raised |-> "AttributeError", ret |-> NoTable, arg |-> seen(d3)]
        ELSE IF ~CanFill(d4, "noball_runs")
        THEN [raised |-> "AttributeError", ret |-> NoTable, arg |-> seen(d4)]
        ELSE [raised |-> "none", ret |-> d7, arg |-> seen(d7)]

-----------------------------------------------------------------------------
(* merge_matches_deliveries *)

\* names pandas gives to a non-key column carried by both sides of a merge
SuffixX(c) == c \o "_x"
SuffixY(c) == c \o "_y"

\* the merge with how='inner': a left row with no partner is dropped
InnerMergeOnMatchId(left, right) ==
    LET rcols == right.cols \ {"match_id"}
        hits(l) == [j \in 1..NRows(right) |-> right.rows[j]["match_id"] = l["match_id"]]
        out(l) == LET rs == SelectRows(right.rows, hits(l))
                  IN  [j \in 1..Len(rs) |->
                          [k \in left.cols \cup rcols |->
                              IF k \in left.cols THEN l[k] ELSE rs[j][k]]]
        Join[i \in 0..NRows(left)] ==
            IF i = 0 THEN << >> ELSE Join[i - 1] \o out(left.rows[i])
    IN  Table(left.cols \cup rcols, Join[NRows(left)])

\* deliveries.merge(right, how='left', on='match_id'): for each left row in
\* order, one output row per right row with the same key (null keys match
\* each other), or one row with null right-hand cells when there is none
LeftMergeOnMatchId(left, right) ==
    LET overlap == (left.cols \cap right.cols) \ {"match_id"}
        lname(c) == IF c \in overlap THEN SuffixX(c) ELSE c
        rname(c) == IF c \in overlap THEN SuffixY(c) ELSE c
        lcols == {lname(c) : c \in left.cols}
        rcols == {rname(c) : c \in right.cols \ {"match_id"}}
        lsrc(k) == CHOOSE c \in left.cols : lname(c) = k
        rsrc(k) == CHOOSE c \in right.cols \ {"match_id"} : rname(c) = k
        outrow(l, r) == [k \in lcols \cup rcols |->
                            IF k \in lcols THEN l[lsrc(k)] ELSE r[rsrc(k)]]
        nullrow(l)   == [k \in lcols \cup rcols |->
                            IF k \in lcols THEN l[lsrc(k)] ELSE NaN]
        hits(l) == [j \in 1..NRows(right) |-> right.rows[j]["match_id"] = l["match_id"]]
        out(l) == LET rs == SelectRows(right.rows, hits(l))
                  IN  IF rs = <<>> THEN <<nullrow(l)>>
                      ELSE [j \in 1..Len(rs) |-> outrow(l, rs[j])]
        Join[i \in 0..NRows(left)] ==
            IF i = 0 THEN <<>> ELSE Join[i - 1] \o out(left.rows[i])
    IN  Table(lcols \cup rcols, Join[NRows(left)])

merge_matches_deliveries(m, d) ==
    IF Has(d, "match_id") /\ Has(m, "match_id")
    THEN LET cols == ({"match_id"} \cup MatchLevelCols) \cap m.cols
         IN  LeftMergeOnMatchId(d, Project(m, cols))
    ELSE DataFrameCopy(d).tbl

-----------------------------------------------------------------------------
(* compute_figs_and_tables *)

\* a float quotient num / den, kept exact; NaNRatio is np.nan
Ratio(n, d) == [num |-> n, den |-> d]
NaNRatio == [nan |-> TRUE]

\* sum of column c over the rows of group k of groupby(key); NaN cells skipped
GroupSum(t, key, c, k) ==
    LET Sum[i \in 0..NRows(t)] ==
            IF i = 0 THEN 0
            ELSE Sum[i - 1] + (IF t.rows[i][key] = k /\ t.rows[i][c] # NaN
                               THEN t.rows[i][c] ELSE 0)
    IN  Sum[NRows(t)]

\* number of rows of t whose column c holds v
CountOf(t, c, v) == Cardinality({i \in 1..NRows(t) : t.rows[i][c] = v})

RemoveAt(s, i) == SubSeq(s, 1, i - 1) \o SubSeq(s, i + 1, Len(s))

RECURSIVE SortValuesAsc(_, _, _)
\* the sort with ascending=True
SortValuesAsc(rows, key, tie) ==
    IF rows = << >> THEN << >>
    ELSE LET best == {i \in 1..Len(rows) :
                         \A j \in 1..Len(rows) : rows[i][key] <= rows[j][key]}
             pick == IF tie = "first"
                     THEN CHOOSE i \in best : \A j \in best : i <= j
                     ELSE CHOOSE i \in best : \A j \in best : j <= i
         IN  <<rows[pick]>> \o SortValuesAsc(RemoveAt(rows, pick), key, tie)

RECURSIVE SortValuesDesc(_, _, _)
\* df.sort_values(key, ascending=False) with the default kind='quicksort',
\* which is not stable: rows with equal keys come out in an order the sort
\* decides; tie is that order ("first": as they came, "last": reversed)
SortValuesDesc(rows, key, tie) ==
    IF rows = <<>> THEN <<>>
    ELSE LET best == {i \in 1..Len(rows) :
                         \A j \in 1..Len(rows) : rows[j][key] <= rows[i][key]}
             pick == IF tie = "first"
                     THEN CHOOSE i \in best : \A j \in best : i <= j
                     ELSE CHOOSE i \in best : \A j \in best : j <= i
         IN  <<rows[pick]>> \o SortValuesDesc(RemoveAt(rows, pick), key, tie)

\* df.head(n)
HeadN(rows, n) == IF Len(rows) <= n THEN rows ELSE SubSeq(rows, 1, n)

TiePolicies == {"first", "last"}

Section(raised, out) == [raised |-> raised, out |-> out]
Nothing == Section("none", <<>>)

\* the KPIs with total_runs summed over batsman_runs
KpisBatsmanRuns(mg, m) ==
    [total_matches |-> IF Has(m, "match_id")
                       THEN Cardinality(Keys(m, "match_id")) ELSE NRows(m),
     total_runs    |-> IF Has(mg, "batsman_runs") THEN SumSeq(Col(mg, "batsman_runs")) ELSE 0,
     total_wickets |-> IF Has(mg, "is_wicket") THEN SumSeq(Col(mg, "is_wicket")) ELSE 0]

\* lines 155-163
Kpis(mg, m) ==
    [total_matches |-> IF Has(m, "match_id")
                       THEN Cardinality(Keys(m, "match_id")) ELSE NRows(m),
     total_runs    |-> IF Has(mg, "total_runs") THEN SumSeq(Col(mg, "total_runs")) ELSE 0,
     total_wickets |-> IF Has(mg, "is_wicket") THEN SumSeq(Col(mg, "is_wicket")) ELSE 0]

\* lines 166-173.  emptyApplyRaises: on a frame with no rows
\* df.apply(f, axis=1) returns an empty frame, and assigning a frame to one
\* column is a ValueError in the pandas versions that refuse it
TopBatsmen(mg, tie, emptyApplyRaises) ==
    IF ~Has(mg, "batsman") THEN Nothing
    ELSE LET runsCol == IF Has(mg, "batsman_runs") THEN "batsman_runs" ELSE "total_runs"
             ks == SortedSeq(Keys(mg, "batsman"))
             grp == Tuple([g \in 1..Len(ks) |->
                       LET runs  == GroupSum(mg, "batsman", runsCol, ks[g])
                           balls == GroupSum(mg, "batsman", "legal_delivery", ks[g])
                       IN  [batsman |-> ks[g], runs |-> runs, balls |-> balls,
                            strike_rate |-> IF balls > 0 THEN Ratio(runs * 100, balls)
                                            ELSE Ratio(0, 1)]])
         IN  IF ~Has(mg, runsCol) \/ ~Has(mg, "legal_delivery")
             THEN Section("KeyError", <<>>)
             ELSE IF ks = <<>> /\ emptyApplyRaises
             THEN Section("ValueError", <<>>)
             ELSE Section("none",
                          [n \in {"top_batsmen"} |->
                              HeadN(SortValuesDesc(grp, "runs", tie), TopPlayers)])

\* the bowlers table with the quotient taken without the overs > 0 test
TopBowlersUnguarded(mg, tie, emptyApplyRaises) ==
    IF ~Has(mg, "bowler") THEN Nothing
    ELSE LET ks == SortedSeq(Keys(mg, "bowler"))
             grp == Tuple([g \in 1..Len(ks) |->
                       LET rc == GroupSum(mg, "bowler", "total_runs", ks[g])
                           lb == GroupSum(mg, "bowler", "legal_delivery", ks[g])
                           wk == GroupSum(mg, "bowler", "is_wicket", ks[g])
                       IN  [bowler |-> ks[g], runs_conceded |-> rc, legal_balls |-> lb,
                            wickets |-> wk,
                            overs |-> Ratio(lb, BallsPerOver),
                            economy |-> Ratio(rc * BallsPerOver, lb)]])
         IN  IF ~({"total_runs", "legal_delivery", "is_wicket"} \subseteq mg.cols)
             THEN Section("KeyError", <<>>)
             ELSE IF ks = <<>> /\ emptyApplyRaises
             THEN Section("ValueError", <<>>)
             ELSE Section("none",
                          [n \in {"top_bowlers"} |->
                              HeadN(SortValuesDesc(grp, "wickets", tie), TopPlayers)])

\* lines 180-189
TopBowlers(mg, tie, emptyApplyRaises) ==
    IF ~Has(mg, "bowler") THEN Nothing
    ELSE LET ks == SortedSeq(Keys(mg, "bowler"))
             grp == Tuple([g \in 1..Len(ks) |->
                       LET rc == GroupSum(mg, "bowler", "total_runs", ks[g])
                           lb == GroupSum(mg, "bowler", "legal_delivery", ks[g])
                           wk == GroupSum(mg, "bowler", "is_wicket", ks[g])
                       IN  [bowler |-> ks[g], runs_conceded |-> rc, legal_balls |-> lb,
                            wickets |-> wk,
                            overs |-> Ratio(lb, BallsPerOver),
                            economy |-> IF lb > 0 THEN Ratio(rc * BallsPerOver, lb)
                                        ELSE NaNRatio]])
         IN  IF ~({"total_runs", "legal_delivery", "is_wicket"} \subseteq mg.cols)
             THEN Section("KeyError", <<>>)
             ELSE IF ks = <<>> /\ emptyApplyRaises
             THEN Section("ValueError", <<>>)
             ELSE Section("none",
                          [n \in {"top_bowlers"} |->
                              HeadN(SortValuesDesc(grp, "wickets", tie), TopPlayers)])

\* df[df['season'].astype(str) == str(selected_season)]
SeasonFilter(t, isFloat, season) ==
    Filter(t, [i \in 1..NRows(t) |-> StrOf(t.rows[i]["season"], isFloat) = season])

\* df[df['winner'] == selected_team]
WinnerFilter(t, team) == Filter(t, [i \in 1..NRows(t) |-> t.rows[i]["winner"] = team])

\* lines 196-209
TeamWinningTrends(m, team, season) ==
    IF ~(Has(m, "winner") /\ Has(m, "season")) THEN Nothing
    ELSE LET mf == IF season # AllSeasons
                   THEN SeasonFilter(m, IsFloatCol(m, "season"), season) ELSE m
         IN  IF team = AllTeams
             THEN LET named == Filter(mf, [i \in 1..NRows(mf) |->
                                  mf.rows[i]["season"] # NaN /\ mf.rows[i]["winner"] # NaN])
                      S == Keys(named, "season")
                      W == Keys(named, "winner")
                  IN  Section("none",
                         [n \in {"wins_by_season"} |->
                            [sw \in S \X W |->
                               Cardinality({i \in 1..NRows(named) :
                                   /\ named.rows[i]["season"] = sw[1]
                                   /\ named.rows[i]["winner"] = sw[2]})]])
             ELSE IF ~Has(m, "match_id") THEN Section("KeyError", <<>>)
             ELSE LET won == WinnerFilter(mf, team)
                      ks == SortedSeq(Keys(won, "season"))
                  IN  Section("none",
                         [n \in {"team_wins"} |->
                            [g \in 1..Len(ks) |->
                               [season |-> ks[g],
                                wins |-> Cardinality({i \in 1..NRows(won) :
                                            /\ won.rows[i]["season"] = ks[g]
                                            /\ won.rows[i]["match_id"] # NaN})]]])

RECURSIVE FirstSeen(_, _)
\* the distinct non-null cells of a tuple in order of first appearance
FirstSeen(s, seen) ==
    IF s = <<>> THEN <<>>
    ELSE IF Head(s) = NaN \/ Head(s) \in seen THEN FirstSeen(Tail(s), seen)
    ELSE <<Head(s)>> \o FirstSeen(Tail(s), seen \cup {Head(s)})

\* t[c].value_counts().head(n).reset_index() with columns [c, countName]:
\* counts of the non-null values, highest first
ValueCountsHead(t, c, tie, n) ==
    LET vs == FirstSeen(Col(t, c), {})
        vc == Tuple([g \in 1..Len(vs) |-> [value |-> vs[g], count |-> CountOf(t, c, vs[g])]])
    IN  HeadN(SortValuesDesc(vc, "count", tie), n)

\* lines 212-227
StadiumTrends(m, team, season, tie) ==
    IF ~Has(m, "venue") THEN Nothing
    ELSE IF team = AllTeams
    THEN Section("none",
                 [n \in {"top_venues"} |-> ValueCountsHead(m, "venue", tie, TopVenues)])
    ELSE IF ~Has(m, "winner") THEN Section("KeyError", <<>>)
    ELSE IF season # AllSeasons /\ ~Has(m, "season") THEN Section("KeyError", <<>>)
    ELSE LET won == WinnerFilter(m, team)
             twm == IF season # AllSeasons
                    THEN SeasonFilter(won, IsFloatCol(m, "season"), season) ELSE won
         IN  Section("none",
                     [n \in {"team_venue_wins"} |->
                         ValueCountsHead(twm, "venue", tie, TopVenues)])

\* lines 230-233
HeadToHead(m) ==
    IF ~({"team1", "team2", "winner"} \subseteq m.cols) THEN Nothing
    ELSE LET pairs == Filter(m, [i \in 1..NRows(m) |->
                          /\ m.rows[i]["winner"] # NaN
                          /\ m.rows[i]["team1"] # NaN
                          /\ m.rows[i]["team2"] # NaN])
             W == Keys(pairs, "winner")
             T == Keys(pairs, "team2")
         IN  Section("none",
                [n \in {"head_to_head"} |->
                   [wt \in W \X T |->
                      Cardinality({i \in 1..NRows(pairs) :
                          /\ pairs.rows[i]["winner"] = wt[1]
                          /\ pairs.rows[i]["team2"] = wt[2]})]])

\* the sections run in order; the first exception ends the call and no map
\* is returned
compute_figs_and_tables(mg, m, team, season, tie, emptyApplyRaises) ==
    LET s0 == Section("none", [n \in {"kpis"} |-> Kpis(mg, m)])
        s1 == TopBatsmen(mg, tie, emptyApplyRaises)
        s2 == TopBowlers(mg, tie, emptyApplyRaises)
        s3 == TeamWinningTrends(m, team, season)
        s4 == StadiumTrends(m, team, season, tie)
        s5 == HeadToHead(m)
        secs == <<s0, s1, s2, s3, s4, s5>>
        bad == {i \in 1..Len(secs) : secs[i].raised # "none"}
    IN  IF bad # {}
        THEN [raised |-> secs[CHOOSE i \in bad : \A j \in bad : i <= j].raised,
              tables |-> <<>>]
        ELSE [raised |-> "none",
              tables |-> s0.out @@ s1.out @@ s2.out @@ s3.out @@ s4.out @@ s5.out]

-----------------------------------------------------------------------------
(* Sidebar filters of run_streamlit_app; run_cli and run_tests pass the     *)
(* defaults and filter nothing.                                             *)

\* line 329-330
SeasonChoices(m) ==
    {AllSeasons} \cup
    (IF Has(m, "season")
     THEN {StrOf(s, IsFloatCol(m, "season")) : s \in Keys(m, "season")} ELSE {})

\* lines 332-337
TeamChoices(m) ==
    {AllTeams} \cup
    (IF {"team1", "team2"} \subseteq m.cols THEN Keys(m, "team1") \cup Keys(m, "team2")
     ELSE IF Has(m, "team1") THEN Keys(m, "team1") ELSE {})

\* lines 340-345: [raised, df]
apply_filters(mg, m, team, season) ==
    LET df0 == DataFrameCopy(mg).tbl
        \* dtype of merged['season']: float when the match column is float or
        \* the left join filled a null
        isFloat == IsFloatCol(m, "season") \/ IsFloatCol(df0, "season")
        df1 == IF season # AllSeasons /\ Has(df0, "season")
               THEN SeasonFilter(df0, isFloat, season) ELSE df0
    IN  IF team # AllTeams /\ Has(m, "match_id")
        THEN IF ~Has(m, "team1") \/ ~Has(m, "team2") \/ ~Has(df1, "match_id")
             THEN [raised |-> "KeyError", df |-> NoTable]
             ELSE LET ids == {m.rows[i]["match_id"] : i \in
                                 {j \in 1..NRows(m) : m.rows[j]["team1"] = team
                                                      \/ m.rows[j]["team2"] = team}}
                  IN  [raised |-> "none",
                       df |-> Filter(df1, [i \in 1..NRows(df1) |->
                                              df1.rows[i]["match_id"] \in ids])]
        ELSE [raised |-> "none", df |-> df1]

-----------------------------------------------------------------------------
(* The built-in sample of run_tests.  Teams: 1 Chennai Super Kings,        *)
(* 2 Kolkata Knight Riders, 3 Mumbai Indians, 4 Royal Challengers          *)
(* Bangalore.  Venues: 1 Eden Gardens, 2 Wankhede.  Batsmen A..F are 1..6, *)
(* bowlers w, x, y, z are 1..4.                                            *)

SampleMatches ==
    Table({"match_id", "season", "team1", "team2", "winner", "venue"},
          << [match_id |-> 1, season |-> 2020, team1 |-> 3, team2 |-> 4,
              winner |-> 3, venue |-> 2],
             [match_id |-> 2, season |-> 2020, team1 |-> 1, team2 |-> 2,
              winner |-> 2, venue |-> 1] >>)

SampleDelivery(mid, inn, bat, bowl, b, bw, br, er, pd) ==
    [match_id |-> mid, inning |-> inn, batting_team |-> bat, bowling_team |-> bowl,
     batsman |-> b, bowler |-> bw, batsman_runs |-> br, extra_runs |-> er,
     wide_runs |-> 0, noball_runs |-> 0, player_dismissed |-> pd]

SampleDeliveries ==
    Table({"match_id", "inning", "batting_team", "bowling_team", "batsman", "bowler",
           "batsman_runs", "extra_runs", "wide_runs", "noball_runs", "player_dismissed"},
          << SampleDelivery(1, 1, 3, 4, 1, 2, 4, 0, NaN),
             SampleDelivery(1, 1, 3, 4, 2, 3, 6, 0, 2),
             SampleDelivery(1, 2, 4, 3, 3, 2, 2, 0, NaN),
             SampleDelivery(2, 1, 1, 2, 4, 4, 3, 0, NaN),
             SampleDelivery(2, 1, 1, 2, 5, 4, 4, 1, NaN),
             SampleDelivery(2, 2, 2, 1, 6, 1, 1, 0, 6) >>)

-----------------------------------------------------------------------------
(* The run *)

InitWith(m, d) ==
    /\ pc = "loaded"
    /\ err = "none"
    /\ in_matches = m
    /\ in_deliveries = d
    /\ matches = NoTable
    /\ deliveries = NoTable
    /\ enriched = NoTable
    /\ merged = NoTable
    /\ df_merged = NoTable
    /\ selected_team = AllTeams
    /\ selected_season = AllSeasons
    /\ tables = <<>>

InitSample == InitWith(SampleMatches, SampleDeliveries)

\* sequences over S of length 0..n
SeqsUpTo(S, n) == UNION {[1..k -> S] : k \in 0..n}

\* the rows of a sequence cut down to the columns cols
Restrict(rows, cols) == [i \in 1..Len(rows) |-> [c \in cols |-> rows[i][c]]]

-----------------------------------------------------------------------------
(* Inputs of the aggregator runs: match tables with every combination of    *)
(* the identifier and the match-level columns, delivery tables with and     *)
(* without the player columns.                                              *)

MaxAggMatches == 2

AggMatchRow(mid, season, t1, t2, winner, venue) ==
    [match_id |-> mid, season |-> season, team1 |-> t1, team2 |-> t2,
     winner |-> winner, venue |-> venue]

\* a 2019 match and two 2020 matches, one of them without a result
AggMatchPool ==
    { AggMatchRow(1, 2019, 1, 2, 1, 1),
      AggMatchRow(2, 2020, 1, 2, 2, 1),
      AggMatchRow(3, 2020, 2, 1, NaN, 2) }

AggMatchCols == SUBSET ({"match_id"} \cup MatchLevelCols)

AggDelivery(mid, b, bw, br, er, wr, nb, pd, dk) ==
    [match_id |-> mid, batsman |-> b, bowler |-> bw, batsman_runs |-> br,
     extra_runs |-> er, wide_runs |-> wr, noball_runs |-> nb,
     player_dismissed |-> pd, dismissal_kind |-> dk]

AggDeliveryRows1 ==
    << AggDelivery(1, 1, 1, 4, 0, 0, 0, NaN, "NaN"),
       AggDelivery(1, 2, 1, 0, 0, 0, 0, 2, "run out"),
       AggDelivery(2, 1, 2, 1, 1, 1, 0, 1, "caught") >>

AggDeliveryRows2 ==
    << AggDelivery(3, 2, 2, 0, 1, 1, 0, NaN, "NaN"),
       AggDelivery(3, 2, 1, 6, 0, 0, 0, 2, "bowled"),
       AggDelivery(4, 3, 1, 1, 0, 0, 0, 3, "retired hurt") >>

AggDeliveryCols ==
    {"match_id", "batsman", "bowler", "batsman_runs", "extra_runs", "wide_runs",
     "noball_runs", "player_dismissed", "dismissal_kind"}

AggDeliveryTable(cols, rows) == Table(cols, Restrict(rows, cols))

\* with every column, without the players, without batsman_runs and the key,
\* and with no rows
AggDeliveryTables ==
    { AggDeliveryTable(AggDeliveryCols, AggDeliveryRows1),
      AggDeliveryTable(AggDeliveryCols, AggDeliveryRows2),
      AggDeliveryTable(AggDeliveryCols, << >>),
      AggDeliveryTable(AggDeliveryCols \ {"batsman"}, AggDeliveryRows2),
      AggDeliveryTable(AggDeliveryCols \ {"bowler", "dismissal_kind"}, AggDeliveryRows1),
      AggDeliveryTable(AggDeliveryCols \ {"batsman_runs", "match_id"}, AggDeliveryRows1) }

InitAgg ==
    \E mcols \in AggMatchCols, mrows \in SeqsUpTo(AggMatchPool, MaxAggMatches),
       d \in AggDeliveryTables :
        InitWith(Table(mcols, Restrict(mrows, mcols)), d)

Init == InitSample \/ InitAgg

-----------------------------------------------------------------------------
(* Inputs of the enricher runs: every combination of the columns            *)
(* preprocess_deliveries reads, with null and non-numeric cells.            *)

MaxEnrichRows == 2

EnrichCols ==
    {"batsman_runs", "extra_runs", "total_runs", "wide_runs", "noball_runs",
     "player_dismissed"}

EnrichBase == {"match_id", "bowler"}

\* every one-row table
EnrichRows ==
    [match_id : {1}, bowler : {1},
     batsman_runs : {2, NaN, NonNumeric}, extra_runs : {0, 1, NonNumeric},
     total_runs : {5, NaN}, wide_runs : {0, 1, NaN}, noball_runs : {0, 1, NaN},
     player_dismissed : {NaN, 7}]

\* rows of the longer tables
EnrichPool ==
    { [match_id |-> 1, bowler |-> 1, batsman_runs |-> 4, extra_runs |-> 1,
       total_runs |-> 5, wide_runs |-> 0, noball_runs |-> 0, player_dismissed |-> NaN],
      [match_id |-> 1, bowler |-> 2, batsman_runs |-> NonNumeric, extra_runs |-> NaN,
       total_runs |-> NaN, wide_runs |-> NaN, noball_runs |-> 1, player_dismissed |-> 7],
      [match_id |-> 2, bowler |-> 1, batsman_runs |-> 0, extra_runs |-> 2,
       total_runs |-> 9, wide_runs |-> 1, noball_runs |-> NaN, player_dismissed |-> 8] }

EnrichMatches ==
    Table({"match_id", "season"}, << [match_id |-> 1, season |-> 2020] >>)

InitEnrich ==
    \E cols \in SUBSET EnrichCols :
        \E rows \in {<<r>> : r \in EnrichRows} \cup SeqsUpTo(EnrichPool, MaxEnrichRows) :
            InitWith(EnrichMatches,
                     Table(EnrichBase \cup cols, Restrict(rows, EnrichBase \cup cols)))

-----------------------------------------------------------------------------
(* Inputs of the joiner runs: every presence combination of the key         *)
(* columns on both tables, match keys unique or repeated or null,           *)
(* delivery keys matched, unmatched or null.                                *)

MaxJoinMatches == 2
MaxJoinDeliveries == 2

KeyCols == SUBSET {"match_id", "id"}

\* a row keyed k: the key sits in match_id when the table has that column
\* and in id otherwise
JoinMatchRow(k) ==
    [match_id |-> k, id |-> k, season |-> 2020, venue |-> IF k = NaN THEN 1 ELSE k]

JoinDeliveryRow(k) ==
    [match_id |-> k, id |-> k, bowler |-> 1, batsman_runs |-> 1, extra_runs |-> 0,
     wide_runs |-> 0, noball_runs |-> 0, player_dismissed |-> NaN]

JoinDeliveryBase ==
    {"bowler", "batsman_runs", "extra_runs", "wide_runs", "noball_runs",
     "player_dismissed"}

InitJoin ==
    \E mkeys \in KeyCols, mlevel \in {{}, {"season", "venue"}},
       mrows \in SeqsUpTo({JoinMatchRow(k) : k \in {1, 2, NaN}}, MaxJoinMatches),
       dkeys \in KeyCols,
       drows \in SeqsUpTo({JoinDeliveryRow(k) : k \in {1, 3, NaN}}, MaxJoinDeliveries) :
        InitWith(Table(mkeys \cup mlevel, Restrict(mrows, mkeys \cup mlevel)),
                 Table(dkeys \cup JoinDeliveryBase,
                       Restrict(drows, dkeys \cup JoinDeliveryBase)))

-----------------------------------------------------------------------------
(* Inputs of the ranking runs: more players than a top table holds.  Player *)
(* p bats one ball bowled by player n + 1 - p; every fourth player bats a    *)
(* second ball.  Runs and dismissals follow a stride pattern so that the     *)
(* group sums repeat and tie.                                                *)

NumPlayers == 16
MaxStride == 3
MaxShift == 2

TopDelivery(n, p, runs, out) ==
    [match_id |-> 1, batsman |-> p, bowler |-> n + 1 - p, batsman_runs |-> runs,
     extra_runs |-> 0, wide_runs |-> 0, noball_runs |-> 0,
     player_dismissed |-> IF out THEN p ELSE NaN]

TopDeliveries(n, stride, shift, modulus, wmod) ==
    LET first  == [p \in 1..n |->
                      TopDelivery(n, p, (stride * p + shift) % modulus,
                                  (p + shift) % wmod = 0)]
        again  == SelectRows(first, [p \in 1..n |-> p % 4 = 0])
    IN  Table({"match_id", "batsman", "bowler", "batsman_runs", "extra_runs",
               "wide_runs", "noball_runs", "player_dismissed"},
              first \o [i \in 1..Len(again) |->
                           [again[i] EXCEPT !["batsman_runs"] = 1,
                                            !["player_dismissed"] = again[i]["batsman"]]])

InitTop ==
    \E n \in (NumPlayers - 2)..NumPlayers, stride \in 1..MaxStride, shift \in 0..MaxShift,
       modulus \in {2, 3, 5}, wmod \in {2, 3} :
        InitWith(EnrichMatches, TopDeliveries(n, stride, shift, modulus, wmod))

Normalize ==
    /\ pc = "loaded"
    /\ LET r == normalize_match_id_column(in_matches, in_deliveries)
       IN  /\ matches' = r.matches
           /\ deliveries' = r.deliveries
    /\ pc' = "normalized"
    /\ UNCHANGED <<err, in_matches, in_deliveries, enriched, merged, df_merged,
                   selected_team, selected_season, tables>>

Preprocess ==
    /\ pc = "normalized"
    /\ LET r == preprocess_deliveries(deliveries)
       IN  /\ deliveries' = r.arg
           /\ enriched' = r.ret
           /\ err' = r.raised
           /\ pc' = IF r.raised = "none" THEN "enriched" ELSE "preprocess_failed"
    /\ UNCHANGED <<in_matches, in_deliveries, matches, merged, df_merged,
                   selected_team, selected_season, tables>>

Merge ==
    /\ pc = "enriched"
    /\ merged' = merge_matches_deliveries(matches, enriched)
    /\ pc' = "merged"
    /\ UNCHANGED <<err, in_matches, in_deliveries, matches, deliveries, enriched,
                   df_merged, selected_team, selected_season, tables>>

\* run_streamlit_app lines 329-345; run_cli and run_tests take the defaults
ApplyFilters ==
    /\ pc = "merged"
    /\ \E team \in TeamChoices(matches), season \in SeasonChoices(matches) :
          LET r == apply_filters(merged, matches, team, season)
          IN  /\ selected_team' = team
              /\ selected_season' = season
              /\ df_merged' = r.df
              /\ err' = r.raised
              /\ pc' = IF r.raised = "none" THEN "filtered" ELSE "filter_failed"
    /\ UNCHANGED <<in_matches, in_deliveries, matches, deliveries, enriched, merged,
                   tables>>

Compute ==
    /\ pc = "filtered"
    /\ \E tie \in TiePolicies, emptyApplyRaises \in BOOLEAN :
          LET r == compute_figs_and_tables(df_merged, matches, selected_team,
                                           selected_season, tie, emptyApplyRaises)
          IN  /\ tables' = r.tables
              /\ err' = r.raised
              /\ pc' = IF r.raised = "none" THEN "done" ELSE "compute_failed"
    /\ UNCHANGED <<in_matches, in_deliveries, matches, deliveries, enriched, merged,
                   df_merged, selected_team, selected_season>>

Next == Normalize \/ Preprocess \/ Merge \/ ApplyFilters \/ Compute

Spec == Init /\ [][Next]_vars

SpecEnrich == InitEnrich /\ [][Next]_vars

SpecJoin == InitJoin /\ [][Next]_vars

SpecTop == InitTop /\ [][Next]_vars

-----------------------------------------------------------------------------
(* Properties *)

Joined == pc \in {"merged", "filtered", "filter_failed", "done", "compute_failed"}

Enriched == Joined \/ pc = "enriched"

HasKey(t) == Has(t, "match_id") \/ Has(t, "id")

UniqueMatchIds(m) ==
    \A i, j \in 1..NRows(m) :
        i # j => m.rows[i]["match_id"] # m.rows[j]["match_id"]

Unmatched(row, m) ==
    ~ \E j \in 1..NRows(m) : m.rows[j]["match_id"] = row["match_id"]

\* C1: with unique match ids the join returns one row per delivery row, in
\* order and with the delivery's cells unchanged, and a delivery whose
\* match_id is in no match row has null match-level columns.
C1_LeftJoinKeepsEveryDelivery ==
    (/\ Joined
     /\ Has(matches, "match_id") /\ Has(enriched, "match_id")
     /\ UniqueMatchIds(matches))
    => /\ NRows(merged) = NRows(enriched)
       /\ \A i \in 1..NRows(enriched) :
            /\ \A c \in enriched.cols : merged.rows[i][c] = enriched.rows[i][c]
            /\ Unmatched(enriched.rows[i], matches)
                 => \A c \in MatchLevelCols \cap matches.cols : merged.rows[i][c] = NaN

C1_Witness ==
    /\ pc = "merged"
    /\ Has(matches, "match_id") /\ Has(enriched, "match_id")
    /\ UniqueMatchIds(matches)
    /\ NRows(matches) = 2 /\ NRows(enriched) = 2 /\ NRows(merged) = 2
    /\ Has(merged, "season")
    /\ \E i \in 1..2 : Unmatched(enriched.rows[i], matches) /\ merged.rows[i]["season"] = NaN
    /\ \E i \in 1..2 : ~Unmatched(enriched.rows[i], matches) /\ merged.rows[i]["season"] # NaN

\* C2: compute_figs_and_tables never raises over an absent optional column;
\* the aggregate that needs the column is left out of the tables map and the
\* others are produced.
C2_AbsentColumnOmitsAggregate ==
    /\ ~(pc = "compute_failed" /\ err = "KeyError")
    /\ pc = "done"
         => /\ "kpis" \in DOMAIN tables
            /\ "top_batsmen" \in DOMAIN tables <=> Has(df_merged, "batsman")
            /\ "top_bowlers" \in DOMAIN tables <=> Has(df_merged, "bowler")
            /\ "head_to_head" \in DOMAIN tables
                 <=> {"team1", "team2", "winner"} \subseteq matches.cols

\* the cell of a wide_runs / noball_runs column as C3 reads it: 0 when the
\* column is absent or the cell null
ExtraCell(t, i, c) == IF Has(t, c) /\ t.rows[i][c] # NaN THEN t.rows[i][c] ELSE 0

\* C3: preprocess_deliveries completes when wide_runs or noball_runs is
\* absent, and legal_delivery is 1 exactly on the rows whose wide_runs and
\* noball_runs are both 0, an absent column or a null cell counting as 0.
C3_AbsentExtrasCountAsZero ==
    pc \notin {"loaded", "normalized"}
    => /\ pc # "preprocess_failed"
       /\ \A i \in 1..NRows(enriched) :
            enriched.rows[i]["legal_delivery"] =
                IF /\ ExtraCell(deliveries, i, "wide_runs") = 0
                   /\ ExtraCell(deliveries, i, "noball_runs") = 0
                THEN 1 ELSE 0

\* dismissals credited to the bowler among the rows of t bowled by b
BowlerWickets(t, b) ==
    Cardinality({i \in 1..NRows(t) :
        /\ t.rows[i]["bowler"] = b
        /\ t.rows[i]["player_dismissed"] # NaN
        /\ t.rows[i]["dismissal_kind"] \notin {"run out", "retired hurt"}})

\* C4: in top_bowlers a bowler's wickets is the number of the bowler's
\* deliveries with a dismissal other than 'run out' and 'retired hurt'.
C4_BowlerWicketsExcludeRunOuts ==
    (/\ pc = "done"
     /\ "top_bowlers" \in DOMAIN tables
     /\ {"player_dismissed", "dismissal_kind"} \subseteq df_merged.cols)
    => \A i \in 1..Len(tables["top_bowlers"]) :
          tables["top_bowlers"][i]["wickets"] =
              BowlerWickets(df_merged, tables["top_bowlers"][i]["bowler"])

\* C5: with 'All Teams' and a season selected, each venue of top_venues is
\* counted over the matches of that season only.
C5_TopVenuesOfSelectedSeason ==
    (/\ pc = "done"
     /\ selected_team = AllTeams
     /\ selected_season # AllSeasons
     /\ "top_venues" \in DOMAIN tables)
    => LET inSeason == SeasonFilter(matches, IsFloatCol(matches, "season"),
                                    selected_season)
       IN  /\ \A i \in 1..Len(tables["top_venues"]) :
                 tables["top_venues"][i]["count"] =
                     CountOf(inSeason, "venue", tables["top_venues"][i]["value"])
           /\ Len(tables["top_venues"]) <= TopVenues

\* C6: preprocess_deliveries leaves the table passed to it as it was (same
\* columns, same cells, no derived column added), and the table it returns
\* has as many rows.
C6_EnricherLeavesInputAlone ==
    pc \notin {"loaded", "normalized"}
    => /\ deliveries = normalize_match_id_column(in_matches, in_deliveries).deliveries
       /\ pc # "preprocess_failed" => NRows(enriched) = NRows(deliveries)

C6_Witness ==
    /\ pc = "enriched"
    /\ NRows(deliveries) = 2 /\ NRows(enriched) = 2
    /\ {"legal_delivery", "is_wicket", "total_runs"} \cap deliveries.cols = {}
    /\ {"legal_delivery", "is_wicket", "total_runs"} \subseteq enriched.cols
    /\ Has(deliveries, "batsman_runs")
    /\ \E i \in 1..2 : enriched.rows[i]["batsman_runs"] # deliveries.rows[i]["batsman_runs"]

\* C7: for every presence combination of 'match_id' and 'id' on the two
\* tables the normalizer drops no column (an 'id' may become 'match_id'), and
\* the join adds the match-level columns of the match table exactly when
\* each table came with a key column, and otherwise returns the delivery
\* table as it is.
C7_KeyPresenceDecidesJoin ==
    Joined
    => /\ Cardinality(matches.cols) = Cardinality(in_matches.cols)
       /\ in_matches.cols \ {"id"} \subseteq matches.cols
       /\ Cardinality(deliveries.cols) = Cardinality(in_deliveries.cols)
       /\ in_deliveries.cols \ {"id"} \subseteq deliveries.cols
       /\ NRows(matches) = NRows(in_matches) /\ NRows(deliveries) = NRows(in_deliveries)
       /\ IF HasKey(in_matches) /\ HasKey(in_deliveries)
          THEN /\ Has(matches, "match_id") /\ Has(enriched, "match_id")
               /\ merged.cols = enriched.cols \cup (MatchLevelCols \cap in_matches.cols)
          ELSE merged = enriched

C7_Witness ==
    /\ pc = "merged"
    /\ in_matches.cols \cap {"match_id", "id"} = {"id"}
    /\ in_deliveries.cols \cap {"match_id", "id"} = {"id"}
    /\ NRows(merged) > 0
    /\ Has(merged, "season") /\ ~Has(enriched, "season")
    /\ \E i \in 1..NRows(merged) : merged.rows[i]["season"] # NaN

C7_WitnessUnjoined ==
    /\ pc = "merged"
    /\ HasKey(in_matches) /\ ~HasKey(in_deliveries)
    /\ NRows(merged) > 0
    /\ merged = enriched

\* the cell of a runs column as C8 reads it: an integer, 0 when the column
\* is absent or the cell null or not a number
RunsCell(t, i, c) == IF Has(t, c) THEN ToNumericFillInt(t.rows[i][c]) ELSE 0

\* C8: total_runs is the input's total_runs when it has that column, and
\* otherwise batsman_runs + extra_runs with a missing one counting as 0
\* (so 0 when neither column exists).
C8_TotalRunsRule ==
    Enriched
    => \A i \in 1..NRows(enriched) :
          enriched.rows[i]["total_runs"] =
              IF Has(deliveries, "total_runs") THEN deliveries.rows[i]["total_runs"]
              ELSE RunsCell(deliveries, i, "batsman_runs")
                   + RunsCell(deliveries, i, "extra_runs")

\* the identifier column of the match table as loaded
KeyColumn(t) == IF Has(t, "match_id") THEN "match_id" ELSE "id"

\* C9: with no filters and unique match ids the KPI table holds the number of
\* distinct match ids (the row count without an id column), the sum of
\* total_runs over the delivery rows and the number of delivery rows with a
\* player_dismissed; 2, 21 and 2 on the sample of run_tests.
C9_KpisOverDeliveries ==
    (/\ pc = "done"
     /\ selected_team = AllTeams /\ selected_season = AllSeasons
     /\ Has(matches, "match_id") => UniqueMatchIds(matches))
    => /\ tables["kpis"]["total_matches"] =
            IF HasKey(in_matches)
            THEN Cardinality(Keys(in_matches, KeyColumn(in_matches)))
            ELSE NRows(in_matches)
       /\ tables["kpis"]["total_runs"] = SumSeq(Col(enriched, "total_runs"))
       /\ tables["kpis"]["total_wickets"] =
            Cardinality({i \in 1..NRows(in_deliveries) :
                /\ Has(in_deliveries, "player_dismissed")
                /\ in_deliveries.rows[i]["player_dismissed"] # NaN})
       /\ (in_matches = SampleMatches /\ in_deliveries = SampleDeliveries)
            => tables["kpis"] =
                 [total_matches |-> 2, total_runs |-> 21, total_wickets |-> 2]

C9_Witness ==
    /\ pc = "done"
    /\ in_matches = SampleMatches /\ in_deliveries = SampleDeliveries
    /\ selected_team = AllTeams /\ selected_season = AllSeasons
    /\ tables["kpis"] = [total_matches |-> 2, total_runs |-> 21, total_wickets |-> 2]

\* a top table: at most TopPlayers rows, highest key first, and nobody left
\* out whose group total is above a listed one
RankedTop(rows, who, key, t, c) ==
    /\ Len(rows) <= TopPlayers
    /\ \A i \in 1..(Len(rows) - 1) : rows[i][key] >= rows[i + 1][key]
    /\ \A b \in Keys(t, who) \ {rows[i][who] : i \in 1..Len(rows)} :
          \A i \in 1..Len(rows) : GroupSum(t, who, c, b) <= rows[i][key]

\* C10: top_batsmen has at most 15 rows, non-increasing in runs, and no
\* batsman left out has more runs than one kept; top_bowlers likewise in
\* wickets.
C10_TopTablesRanked ==
    pc = "done"
    => /\ "top_batsmen" \in DOMAIN tables
            => RankedTop(tables["top_batsmen"], "batsman", "runs", df_merged,
                         IF Has(df_merged, "batsman_runs") THEN "batsman_runs"
                         ELSE "total_runs")
       /\ "top_bowlers" \in DOMAIN tables
            => RankedTop(tables["top_bowlers"], "bowler", "wickets", df_merged,
                         "is_wicket")

C10_Witness ==
    /\ pc = "done"
    /\ Cardinality(Keys(df_merged, "batsman")) > TopPlayers
    /\ Cardinality(Keys(df_merged, "bowler")) > TopPlayers
    /\ Len(tables["top_batsmen"]) = TopPlayers
    /\ Len(tables["top_bowlers"]) = TopPlayers
    /\ tables["top_batsmen"][1]["runs"] > tables["top_batsmen"][TopPlayers]["runs"]
    /\ tables["top_bowlers"][1]["wickets"] > tables["top_bowlers"][TopPlayers]["wickets"]
    /\ \E b \in Keys(df_merged, "batsman") :
          /\ \A i \in 1..TopPlayers : tables["top_batsmen"][i]["batsman"] # b
          /\ GroupSum(df_merged, "batsman", "batsman_runs", b)
                = tables["top_batsmen"][TopPlayers]["runs"]

\* legal deliveries bowled by b in t, counted from wide_runs and noball_runs
LegalBallsOf(t, b) ==
    Cardinality({i \in 1..NRows(t) :
        /\ t.rows[i]["bowler"] = b
        /\ t.rows[i]["wide_runs"] = 0 /\ t.rows[i]["noball_runs"] = 0})

\* C11: for every bowler of top_bowlers, economy times legal_balls / 6 is
\* runs_conceded when the bowler has a legal ball, economy is null when the
\* bowler has none, and the computation does not fail on such a bowler.
C11_EconomyNullWithoutLegalBalls ==
    /\ (/\ pc = "compute_failed"
        /\ Has(df_merged, "bowler")
        /\ \E b \in Keys(df_merged, "bowler") : LegalBallsOf(df_merged, b) = 0)
        => err = "KeyError"
    /\ (pc = "done" /\ "top_bowlers" \in DOMAIN tables)
        => \A i \in 1..Len(tables["top_bowlers"]) :
              LET r  == tables["top_bowlers"][i]
                  lb == LegalBallsOf(df_merged, r["bowler"])
                  rc == GroupSum(df_merged, "bowler", "total_runs", r["bowler"])
              IN  /\ r["legal_balls"] = lb /\ r["runs_conceded"] = rc
                  /\ IF lb > 0
                     THEN /\ r["economy"] # NaNRatio
                          /\ r["economy"]["den"] # 0
                          /\ r["economy"]["num"] * lb
                               = rc * BallsPerOver * r["economy"]["den"]
                     ELSE r["economy"] = NaNRatio

C11_Witness ==
    /\ pc = "done"
    /\ "top_bowlers" \in DOMAIN tables
    /\ \E i \in 1..Len(tables["top_bowlers"]) :
          /\ tables["top_bowlers"][i]["legal_balls"] = 0
          /\ tables["top_bowlers"][i]["runs_conceded"] > 0
          /\ tables["top_bowlers"][i]["economy"] = NaNRatio
    /\ \E i \in 1..Len(tables["top_bowlers"]) :
          /\ tables["top_bowlers"][i]["legal_balls"] > 0
          /\ tables["top_bowlers"][i]["runs_conceded"] > 0
          /\ tables["top_bowlers"][i]["economy"] # NaNRatio

\* C12: with wide_runs and noball_runs present, legal_delivery is 1 on the
\* rows whose wide_runs and noball_runs are both 0 once nulls count as 0,
\* and 0 on every other row; extra_runs does not enter.
C12_LegalIffNoWideNoNoball ==
    (Enriched /\ Has(deliveries, "wide_runs") /\ Has(deliveries, "noball_runs"))
    => \A i \in 1..NRows(enriched) :
          /\ enriched.rows[i]["legal_delivery"] \in {0, 1}
          /\ enriched.rows[i]["legal_delivery"] = 1
               <=> /\ FillInt(deliveries.rows[i]["wide_runs"]) = 0
                   /\ FillInt(deliveries.rows[i]["noball_runs"]) = 0

C12_Witness ==
    /\ pc = "enriched"
    /\ Has(deliveries, "wide_runs") /\ Has(deliveries, "noball_runs")
    /\ Has(deliveries, "extra_runs")
    /\ NRows(enriched) >= 2
    /\ \E i \in 1..NRows(enriched) :
          /\ deliveries.rows[i]["extra_runs"] > 0
          /\ deliveries.rows[i]["wide_runs"] = 0
          /\ deliveries.rows[i]["noball_runs"] = 0
          /\ enriched.rows[i]["legal_delivery"] = 1
    /\ \E i \in 1..NRows(enriched) :
          /\ deliveries.rows[i]["wide_runs"] = NaN
          /\ deliveries.rows[i]["noball_runs"] > 0
          /\ enriched.rows[i]["legal_delivery"] = 0
====
